---- MODULE Spec2Model ----
(***************************************************************************)
(* Model of the StemStation chart tools:                                   *)
(*   tools/build_stemstation_chart.py  (lane mapper, grid quantizer,       *)
(*                                      difficulty thinner, chart build)   *)
(*   tools/transcribe-basicpitch.py    (lane mapper B, tap/hold classifier)*)
(*                                                                         *)
(* Times are integers in milliseconds.  Every tempo that is enumerated     *)
(* gives a whole-millisecond sixteenth-note grid, so the float arithmetic  *)
(* of the tools is exact on the values that occur here.                    *)
(***************************************************************************)
EXTENDS Integers, Sequences, FiniteSets, TLC

VARIABLES
    pc,                 \* position of the running function
    \* ---- thin_notes_for_difficulty (one call)
    notes,              \* argument: the note list
    difficulty,         \* argument: "easy" | "normal" | "expert"
    spacing,            \* arguments min_spacing_ms_easy / _normal / _expert
    idx,                \* position of the for loop in notes (1-based)
    out,                \* local: out
    last_time_by_lane,  \* local: last_time_by_lane (a dict lane -> time)
    \* ---- lane mappers
    pitch_lo, pitch_hi, \* two pitches, pitch_lo <= pitch_hi
    lanes,              \* the lanes both mappers returned for them
    \* ---- the body of build_chart_for_song's loop, for one stem
    midi_notes,         \* the notes of the MIDI file, in file order
    bpm,                \* argument bpm
    all_notes,          \* local: all_notes
    quantized,          \* local: quantized (the same list object as all_notes)
    tiers,              \* locals expert_notes, normal_notes, easy_notes
    \* ---- build_chart_for_song
    files,              \* per stem: the file at midi_path(stem)
    stem_idx,           \* position of the loop over the three stem names
    stems,              \* local: stems (a dict stem name -> entry)
    output_file,        \* what this run wrote at output_path: <<>> or <<chart>>
    \* ---- build_chart_from_midi
    pm_notes,           \* the notes of pm, flattened in loop order
    offset_ms,          \* argument offset_ms
    note_idx,           \* position of the loop in pm_notes
    chart_notes,        \* local: notes (the chart's note dicts)
    chart               \* the returned chart: <<>> or <<dict>>

thinVars == <<notes, difficulty, spacing, idx, out, last_time_by_lane>>
laneVars == <<pitch_lo, pitch_hi, lanes>>
stemVars == <<midi_notes, all_notes, quantized, tiers>>
buildVars == <<files, stem_idx, stems, output_file>>
chartVars == <<pm_notes, offset_ms, note_idx, chart_notes, chart>>
vars == <<pc, thinVars, laneVars, stemVars, bpm, buildVars, chartVars>>

(***************************************************************************)
(* Bounds of the model                                                     *)
(***************************************************************************)
MaxLen == 3             \* longest note list handed to the thinner
NumTimes == 3           \* how many of TimePoints are used as note times
MaxPitch == 127         \* MIDI pitches are 0..MaxPitch

\* Note times (ms).  Their differences hit the gaps exactly (80, 260, 160)
\* and fall on both sides of each of them.
TimePoints == <<0, 80, 260, 420, 410, 500>>
Times == {TimePoints[k] : k \in 1..NumTimes}

\* One pitch per lane used; 40 and 65 are lanes 0 and 2.
SamplePitches == {40, 65}

Difficulties == {"easy", "normal", "expert"}

\* The gap values the tools configure: the defaults and build_chart_for_song's.
DefaultEasy == 260
DefaultNormal == 160
DefaultExpert == 80
BuildNormal == 150
GapChoices == {DefaultExpert, BuildNormal, DefaultNormal, DefaultEasy}

SeqsUpTo(S, n) == UNION {[1..k -> S] : k \in 0..n}

None == "None"

(***************************************************************************)
(* Lane mappers                                                            *)
(***************************************************************************)
Max(a, b) == IF a >= b THEN a ELSE b
Min(a, b) == IF a <= b THEN a ELSE b

\* Policy A
map_pitch_to_lane(pitch) ==
    IF pitch < 50 THEN 0
    ELSE IF pitch < 60 THEN 1
    ELSE IF pitch < 72 THEN 2
    ELSE 3

\* Mutant of Policy B: the lower clamp is missing.
lane_for_midi_NoLowerClamp(midi_note) == Min(3, (midi_note - 36) \div 12)

\* Policy B; // is floor division, as \div is
lane_for_midi(midi_note) == Max(0, Min(3, (midi_note - 36) \div 12))

(***************************************************************************)
(* NoteEvent                                                               *)
(***************************************************************************)
NoteEvent(time_ms, duration_ms, pitch, lane) ==
    [time_ms |-> time_ms, duration_ms |-> duration_ms, pitch |-> pitch, lane |-> lane]

SampleDuration == 100

\* The notes the thinner is run on.
ThinNotes ==
    {NoteEvent(t, SampleDuration, p, map_pitch_to_lane(p)) : t \in Times, p \in SamplePitches}

IsSortedByTime(s) == \A k \in 1..(Len(s) - 1) : s[k].time_ms <= s[k + 1].time_ms

(***************************************************************************)
(* thin_notes_for_difficulty                                               *)
(***************************************************************************)
\* -1e9, the default of last_time_by_lane.get
NoLastTime == -1000000000

EmptyDict == [l \in {} |-> 0]

\* Mutant: the easy and normal branches are exchanged.
MinGap_Swapped(diff, sp) ==
    IF diff = "expert" THEN sp.expert
    ELSE IF diff = "normal" THEN sp.easy
    ELSE sp.normal

\* min_gap of the call
MinGap(diff, sp) ==
    IF diff = "expert" THEN sp.expert
    ELSE IF diff = "normal" THEN sp.normal
    ELSE sp.easy

\* Mutant: one last time for all lanes (the latest accepted anywhere).
LastTime_AnyLane(by_lane, lane) ==
    IF DOMAIN by_lane = {} THEN NoLastTime
    ELSE CHOOSE t \in {by_lane[l] : l \in DOMAIN by_lane} :
            \A l \in DOMAIN by_lane : by_lane[l] <= t

\* last_time_by_lane.get(lane, -1e9)
LastTime(by_lane, lane) ==
    IF lane \in DOMAIN by_lane THEN by_lane[lane] ELSE NoLastTime

\* Mutant: every tier drops a note that is too close.
ShouldSkip_AllTiers(note, last_time, min_gap, diff) ==
    note.time_ms - last_time < min_gap

\* Mutant: only the easy tier drops.
ShouldSkip_EasyOnly(note, last_time, min_gap, diff) ==
    /\ note.time_ms - last_time < min_gap
    /\ diff = "easy"

\* The two nested conditions that lead to `continue`.
ShouldSkip(note, last_time, min_gap, diff) ==
    /\ note.time_ms - last_time < min_gap
    /\ diff \in {"easy", "normal"}

DictSet(by_lane, lane, t) ==
    [l \in DOMAIN by_lane \cup {lane} |-> IF l = lane THEN t ELSE by_lane[l]]

\* Mutant: the last time is recorded before the spacing test's `continue`.
ThinStep_RecordsDropped(st, note, diff, min_gap) ==
    IF ShouldSkip(note, LastTime(st.last, note.lane), min_gap, diff)
    THEN [out |-> st.out, last |-> DictSet(st.last, note.lane, note.time_ms)]
    ELSE [out |-> Append(st.out, note),
          last |-> DictSet(st.last, note.lane, note.time_ms)]

\* One iteration of the for loop over st = [out, last].
ThinStep(st, note, diff, min_gap) ==
    IF ShouldSkip(note, LastTime(st.last, note.lane), min_gap, diff)
    THEN st
    ELSE [out |-> Append(st.out, note),
          last |-> DictSet(st.last, note.lane, note.time_ms)]

RECURSIVE ThinFrom(_, _, _, _, _)
ThinFrom(st, s, k, diff, min_gap) ==
    IF k > Len(s) THEN st
    ELSE ThinFrom(ThinStep(st, s[k], diff, min_gap), s, k + 1, diff, min_gap)

\* The whole function, as a value.
thin_notes_for_difficulty(s, diff, sp) ==
    ThinFrom([out |-> <<>>, last |-> EmptyDict], s, 1, diff, MinGap(diff, sp)).out

\* A call that overrides the gap of its own tier only, as build_chart_for_song's do.
SpacingFor(diff, gap) ==
    [easy   |-> IF diff = "easy" THEN gap ELSE DefaultEasy,
     normal |-> IF diff = "normal" THEN gap ELSE DefaultNormal,
     expert |-> IF diff = "expert" THEN gap ELSE DefaultExpert]

IdleThin ==
    /\ notes = <<>> /\ difficulty = None /\ spacing = None
    /\ idx = 0 /\ out = <<>> /\ last_time_by_lane = EmptyDict

IdleLanes == pitch_lo = 0 /\ pitch_hi = 0 /\ lanes = None

IdleStem ==
    /\ midi_notes = <<>> /\ all_notes = None /\ quantized = None /\ tiers = None

IdleBuild ==
    /\ files = None /\ stem_idx = 0 /\ stems = None /\ output_file = <<>>

IdleChart ==
    /\ pm_notes = <<>> /\ offset_ms = 0 /\ note_idx = 0
    /\ chart_notes = <<>> /\ chart = <<>>

ThinInit ==
    /\ pc = "thin_loop"
    /\ notes \in SeqsUpTo(ThinNotes, MaxLen)
    /\ difficulty \in Difficulties
    /\ \E gap \in GapChoices : spacing = SpacingFor(difficulty, gap)
    /\ idx = 1
    /\ out = <<>>
    /\ last_time_by_lane = EmptyDict
    /\ IdleLanes /\ IdleStem /\ bpm = None /\ IdleBuild /\ IdleChart

\* One pass of `for note in notes`.
ThinIterate ==
    /\ pc = "thin_loop"
    /\ idx <= Len(notes)
    /\ LET st == ThinStep([out |-> out, last |-> last_time_by_lane], notes[idx],
                          difficulty, MinGap(difficulty, spacing))
       IN  /\ out' = st.out
           /\ last_time_by_lane' = st.last
    /\ idx' = idx + 1
    /\ UNCHANGED <<pc, notes, difficulty, spacing, laneVars, stemVars, bpm, buildVars, chartVars>>

\* `return out`
ThinReturn ==
    /\ pc = "thin_loop"
    /\ idx > Len(notes)
    /\ pc' = "thin_done"
    /\ UNCHANGED <<thinVars, laneVars, stemVars, bpm, buildVars, chartVars>>

ThinNext == ThinIterate \/ ThinReturn

SpecThin == ThinInit /\ [][ThinNext]_vars

(***************************************************************************)
(* The lane mappers applied to a pair of pitches                           *)
(***************************************************************************)
Pitches == 0..MaxPitch

LanesInit ==
    /\ pc = "lanes_call"
    /\ pitch_lo \in Pitches
    /\ pitch_hi \in Pitches
    /\ pitch_lo <= pitch_hi
    /\ lanes = None
    /\ IdleThin /\ IdleStem /\ bpm = None /\ IdleBuild /\ IdleChart

MapPitches ==
    /\ pc = "lanes_call"
    /\ lanes' = [a_lo |-> map_pitch_to_lane(pitch_lo), a_hi |-> map_pitch_to_lane(pitch_hi),
                 b_lo |-> lane_for_midi(pitch_lo),     b_hi |-> lane_for_midi(pitch_hi)]
    /\ pc' = "lanes_done"
    /\ UNCHANGED <<pitch_lo, pitch_hi, thinVars, stemVars, bpm, buildVars, chartVars>>

LanesNext == MapPitches

SpecLanes == LanesInit /\ [][LanesNext]_vars

(***************************************************************************)
(* load_midi_notes, quantize_notes_to_grid                                 *)
(***************************************************************************)
NumRawTimes == 4        \* how many of RawTimePoints are used as note starts

\* Note starts (ms), on and off the grids of the tempos below; 375 is half
\* way between two lines of the 250 ms grid.
RawTimePoints == <<0, 90, 375, 500, 125, 250>>
RawTimes == {RawTimePoints[k] : k \in 1..NumRawTimes}

\* A note of the file.  start and end are n.start and n.end in thousandths
\* of a second, so that n.start * 1000.0 is the number held.
MidiNote(start, end, pitch) == [start |-> start, end |-> end, pitch |-> pitch]

MidiNotes == {MidiNote(t, t + SampleDuration, p) : t \in RawTimes, p \in SamplePitches}

\* Tempos: 60 and 120 give grids of 250 and 125 ms.
Bpms == {-120, 0, 60, 120}

\* list.sort(key = time_ms): stable, so an element goes after its equals.
InsertByTime(sorted, e) ==
    LET before == SelectSeq(sorted, LAMBDA x : x.time_ms <= e.time_ms)
        after  == SelectSeq(sorted, LAMBDA x : x.time_ms > e.time_ms)
    IN  before \o <<e>> \o after

RECURSIVE SortByTime(_)
SortByTime(s) ==
    IF s = <<>> THEN <<>>
    ELSE InsertByTime(SortByTime(SubSeq(s, 1, Len(s) - 1)), s[Len(s)])

\* The events in file order, before the sort.
FlattenEvents(raw) ==
    [k \in 1..Len(raw) |->
        NoteEvent(raw[k].start, raw[k].end - raw[k].start, raw[k].pitch,
                  map_pitch_to_lane(raw[k].pitch))]

\* Mutant: the events are returned in file order.
load_midi_notes_NoSort(raw) == FlattenEvents(raw)

load_midi_notes(raw) == SortByTime(FlattenEvents(raw))

\* Python's round(num / den): to the nearest integer, a tie to the even one.
PyRound(num, den) ==
    LET n == IF den < 0 THEN -num ELSE num
        d == IF den < 0 THEN -den ELSE den
        q == n \div d
        r == n - q * d
    IN  IF 2 * r < d THEN q
        ELSE IF 2 * r > d THEN q + 1
        ELSE IF q % 2 = 0 THEN q ELSE q + 1

beat_ms(tempo) == 60000 \div tempo

\* 16th note grid
grid_ms(tempo) == beat_ms(tempo) \div 4

quantize_notes_to_grid(ns, grid) ==
    [k \in 1..Len(ns) |-> [ns[k] EXCEPT !.time_ms = PyRound(@, grid) * grid]]

\* The gaps build_chart_for_song passes.
BuildExpert == 80
BuildEasy == 260

\* The three thin_notes_for_difficulty calls of the loop body.
ThinTiers(q) ==
    [expert |-> thin_notes_for_difficulty(q, "expert", SpacingFor("expert", BuildExpert)),
     normal |-> thin_notes_for_difficulty(q, "normal", SpacingFor("normal", BuildNormal)),
     easy   |-> thin_notes_for_difficulty(q, "easy", SpacingFor("easy", BuildEasy))]

(***************************************************************************)
(* The loop body of build_chart_for_song for one stem whose file exists    *)
(***************************************************************************)
StemInit ==
    /\ pc = "stem_load"
    /\ midi_notes \in SeqsUpTo(MidiNotes, MaxLen)
    /\ bpm \in Bpms
    /\ all_notes = None /\ quantized = None /\ tiers = None
    /\ IdleThin /\ IdleLanes /\ IdleBuild /\ IdleChart

\* all_notes = load_midi_notes(path)
StemLoad ==
    /\ pc = "stem_load"
    /\ all_notes' = load_midi_notes(midi_notes)
    /\ pc' = "stem_grid"
    /\ UNCHANGED <<midi_notes, quantized, tiers, bpm, thinVars, laneVars, buildVars, chartVars>>

\* beat_ms = 60000.0 / bpm raises ZeroDivisionError
StemZeroDivision ==
    /\ pc = "stem_grid"
    /\ bpm = 0
    /\ pc' = "stem_raised"
    /\ UNCHANGED <<stemVars, bpm, thinVars, laneVars, buildVars, chartVars>>

\* quantized = quantize_notes_to_grid(all_notes, grid_ms), in place
StemQuantize ==
    /\ pc = "stem_grid"
    /\ bpm # 0
    /\ quantized' = quantize_notes_to_grid(all_notes, grid_ms(bpm))
    /\ all_notes' = quantized'
    /\ pc' = "stem_thin"
    /\ UNCHANGED <<midi_notes, tiers, bpm, thinVars, laneVars, buildVars, chartVars>>

\* the expert, normal and easy passes over quantized
StemThin ==
    /\ pc = "stem_thin"
    /\ tiers' = ThinTiers(quantized)
    /\ pc' = "stem_done"
    /\ UNCHANGED <<midi_notes, all_notes, quantized, bpm, thinVars, laneVars, buildVars, chartVars>>

StemNext == StemLoad \/ StemZeroDivision \/ StemQuantize \/ StemThin

SpecStem == StemInit /\ [][StemNext]_vars

(***************************************************************************)
(* build_chart_for_song                                                    *)
(***************************************************************************)
MaxFileNotes == 2       \* longest MIDI file of a build

StemNames == <<"melody", "drums", "vocals">>
StemSet == {StemNames[k] : k \in 1..Len(StemNames)}

\* What is at midi_path(stem): nothing, a file PrettyMIDI cannot decode, or
\* a file with its notes.
Missing == [kind |-> "missing", notes |-> <<>>]
Undecodable == [kind |-> "undecodable", notes |-> <<>>]
MidiFile(raw) == [kind |-> "midi", notes |-> raw]
BuildNotes == {MidiNote(0, SampleDuration, 40), MidiNote(90, 90 + SampleDuration, 40)}
FileStates ==
    {Missing, Undecodable} \cup {MidiFile(raw) : raw \in SeqsUpTo(BuildNotes, MaxFileNotes)}

\* The string arguments of the run.
TrackId == "local:0:SongName"
SongName == "Song Name"
Artist == "vx9"

\* song_name.replace(" ", "_")
SongSlug == "Song_Name"

\* midi_dir / f"{song_slug}_{stem}.mid"
midi_path(stem) == [dir |-> "midi_dir", file |-> <<SongSlug, stem, "mid">>]

\* round() and int() of to_dict leave the whole numbers of this model as they are.
to_dict(n) ==
    [timeMs |-> n.time_ms, durationMs |-> n.duration_ms, pitch |-> n.pitch, lane |-> n.lane]

Dicts(ns) == [k \in 1..Len(ns) |-> to_dict(ns[k])]

\* stems[stem_name] = {...}
StemEntry(path, t) ==
    [midiFile |-> path,
     difficulties |-> [easy   |-> [notes |-> Dicts(t.easy)],
                       normal |-> [notes |-> Dicts(t.normal)],
                       expert |-> [notes |-> Dicts(t.expert)]]]

\* The tiers of one file: load, quantize, thin three times.
StemTiers(raw, tempo) ==
    ThinTiers(quantize_notes_to_grid(load_midi_notes(raw), grid_ms(tempo)))

\* Mutant: a missing source gets an entry with empty note lists.
StemsAfter_EmptyForMissing(st, stem, file, tempo) ==
    IF file = Missing
    THEN DictSet(st, stem, StemEntry(midi_path(stem), ThinTiers(<<>>)))
    ELSE DictSet(st, stem, StemEntry(midi_path(stem), StemTiers(file.notes, tempo)))

\* stems after one pass of the loop that does not raise.
StemsAfter(st, stem, file, tempo) ==
    IF file = Missing
    THEN st
    ELSE DictSet(st, stem, StemEntry(midi_path(stem), StemTiers(file.notes, tempo)))

\* chart = {...}
Chart(tempo, st) ==
    [trackId |-> TrackId, songName |-> SongName, artist |-> Artist,
     bpm |-> tempo, audioOffsetMs |-> 0, stems |-> st]

NotWritten == <<>>
Written(doc) == <<doc>>

BuildInit ==
    /\ pc = "build_loop"
    /\ bpm \in Bpms
    /\ files \in [StemSet -> FileStates]
    /\ stem_idx = 1
    /\ stems = EmptyDict
    /\ output_file = NotWritten
    /\ IdleThin /\ IdleLanes /\ IdleStem /\ IdleChart

\* `if not path.exists(): continue`
BuildSkipMissing ==
    /\ pc = "build_loop"
    /\ stem_idx <= Len(StemNames)
    /\ files[StemNames[stem_idx]] = Missing
    /\ stems' = StemsAfter(stems, StemNames[stem_idx], Missing, bpm)
    /\ stem_idx' = stem_idx + 1
    /\ UNCHANGED <<pc, bpm, files, output_file, thinVars, laneVars, stemVars, chartVars>>

\* pretty_midi.PrettyMIDI(str(path)) raises on a file it cannot decode
BuildLoadRaises ==
    /\ pc = "build_loop"
    /\ stem_idx <= Len(StemNames)
    /\ files[StemNames[stem_idx]] = Undecodable
    /\ pc' = "build_raised"
    /\ UNCHANGED <<bpm, buildVars, thinVars, laneVars, stemVars, chartVars>>

\* the file is loaded, then 60000.0 / bpm raises ZeroDivisionError
BuildZeroDivision ==
    /\ pc = "build_loop"
    /\ stem_idx <= Len(StemNames)
    /\ files[StemNames[stem_idx]].kind = "midi"
    /\ bpm = 0
    /\ pc' = "build_raised"
    /\ UNCHANGED <<bpm, buildVars, thinVars, laneVars, stemVars, chartVars>>

\* the rest of the loop body, down to stems[stem_name] = {...}
BuildStem ==
    /\ pc = "build_loop"
    /\ stem_idx <= Len(StemNames)
    /\ files[StemNames[stem_idx]].kind = "midi"
    /\ bpm # 0
    /\ stems' = StemsAfter(stems, StemNames[stem_idx], files[StemNames[stem_idx]], bpm)
    /\ stem_idx' = stem_idx + 1
    /\ UNCHANGED <<pc, bpm, files, output_file, thinVars, laneVars, stemVars, chartVars>>

\* after the loop: the chart is assembled and dumped to output_path
BuildWrite ==
    /\ pc = "build_loop"
    /\ stem_idx > Len(StemNames)
    /\ output_file' = Written(Chart(bpm, stems))
    /\ pc' = "build_done"
    /\ UNCHANGED <<bpm, files, stem_idx, stems, thinVars, laneVars, stemVars, chartVars>>

BuildNext ==
    BuildSkipMissing \/ BuildLoadRaises \/ BuildZeroDivision \/ BuildStem \/ BuildWrite

SpecBuild == BuildInit /\ [][BuildNext]_vars

(***************************************************************************)
(* build_chart_from_midi                                                   *)
(***************************************************************************)
MaxPmNotes == 2         \* most notes of a transcribed MIDI object

HoldThreshold == 350

\* A note of pm.  start and end are n.start and n.end in half milliseconds,
\* so that n.start * 1000 is start / 2 and round() has ties to settle.
\* 20 is 10 ms; 801 is 400.5 ms, which rounds to 400.
PmStarts == {20, 801}
\* Lengths of 0, 348, 349 and 350 ms.
PmLengths == {0, 696, 698, 700}
PmNotes == {MidiNote(t, t + d, p) : t \in PmStarts, d \in PmLengths, p \in SamplePitches}

Offsets == {-50, 0, 30}

\* What pm.estimate_tempo() may return (0: a falsy value).
Tempos == {0, 120}

\* int(round(seconds * 1000)) + offset_ms
RoundedMs(half_ms, offset) == PyRound(half_ms, 2) + offset

HoldNote(start_ms, lane, end_ms) ==
    [timeMs |-> start_ms, lane |-> lane, type |-> "hold", endTimeMs |-> end_ms]

TapNote(start_ms, lane) == [timeMs |-> start_ms, lane |-> lane, type |-> "tap"]

\* Mutant: the threshold is exclusive.
ClassifyNote_Exclusive(n, offset) ==
    LET start_ms == RoundedMs(n.start, offset)
        end_ms   == RoundedMs(n.end, offset)
        lane     == lane_for_midi(n.pitch)
    IN  IF end_ms - start_ms > HoldThreshold
        THEN HoldNote(start_ms, lane, end_ms)
        ELSE TapNote(start_ms, lane)

\* The dict one pass of the loop appends.
ClassifyNote(n, offset) ==
    LET start_ms == RoundedMs(n.start, offset)
        end_ms   == RoundedMs(n.end, offset)
        lane     == lane_for_midi(n.pitch)
    IN  IF end_ms - start_ms >= HoldThreshold
        THEN HoldNote(start_ms, lane, end_ms)
        ELSE TapNote(start_ms, lane)

\* notes.sort(key = timeMs): stable
InsertByTimeMs(sorted, e) ==
    LET before == SelectSeq(sorted, LAMBDA x : x.timeMs <= e.timeMs)
        after  == SelectSeq(sorted, LAMBDA x : x.timeMs > e.timeMs)
    IN  before \o <<e>> \o after

RECURSIVE SortByTimeMs(_)
SortByTimeMs(s) ==
    IF s = <<>> THEN <<>>
    ELSE InsertByTimeMs(SortByTimeMs(SubSeq(s, 1, Len(s) - 1)), s[Len(s)])

\* The returned dict; bpm is None when the estimate is falsy.
SingleChart(track_id, title, artist, diff, offset, tempo, ns) ==
    [songId |-> track_id, title |-> title, artist |-> artist,
     bpm |-> IF tempo = 0 THEN <<>> ELSE <<tempo>>,
     offsetMs |-> offset, difficulty |-> diff, notes |-> ns]

ChartInit ==
    /\ pc = "chart_loop"
    /\ pm_notes \in SeqsUpTo(PmNotes, MaxPmNotes)
    /\ offset_ms \in Offsets
    /\ note_idx = 1
    /\ chart_notes = <<>>
    /\ chart = <<>>
    /\ IdleThin /\ IdleLanes /\ IdleStem /\ bpm = None /\ IdleBuild

\* One pass of the loops over pm.instruments and inst.notes.
ChartClassify ==
    /\ pc = "chart_loop"
    /\ note_idx <= Len(pm_notes)
    /\ chart_notes' = Append(chart_notes, ClassifyNote(pm_notes[note_idx], offset_ms))
    /\ note_idx' = note_idx + 1
    /\ UNCHANGED <<pc, pm_notes, offset_ms, chart, thinVars, laneVars, stemVars, bpm, buildVars>>

\* After the loops: the sort, the tempo estimate and the return.
ChartReturn ==
    /\ pc = "chart_loop"
    /\ note_idx > Len(pm_notes)
    /\ chart_notes' = SortByTimeMs(chart_notes)
    /\ \E tempo \in Tempos :
          chart' = <<SingleChart(TrackId, SongName, "STEMSTATION", "easy", offset_ms,
                                 tempo, chart_notes')>>
    /\ pc' = "chart_done"
    /\ UNCHANGED <<pm_notes, offset_ms, note_idx, thinVars, laneVars, stemVars, bpm, buildVars>>

ChartNext == ChartClassify \/ ChartReturn

SpecChart == ChartInit /\ [][ChartNext]_vars

(***************************************************************************)
(* Properties of the thinner                                               *)
(***************************************************************************)
Lanes == 0..3

SelectLane(s, lane) == SelectSeq(s, LAMBDA n : n.lane = lane)

Prefix(s, k) == SubSeq(s, 1, k)

\* The time of the last note of s on the lane, or the sentinel.
LastEmitted(s, lane) ==
    LET on == SelectLane(s, lane)
    IN  IF on = <<>> THEN NoLastTime ELSE on[Len(on)].time_ms

\* The gap configured for the running tier.
TierGap == spacing[difficulty]

\* C1: on the easy and normal tiers, for a time-sorted input, two notes that
\* are consecutive among a lane's kept notes are never closer than the
\* tier's gap (the first kept note of a lane has no predecessor).
C1_SpacingEnforced ==
    (pc \in {"thin_loop", "thin_done"} /\ difficulty \in {"easy", "normal"}
        /\ IsSortedByTime(notes))
    => \A lane \in Lanes :
          LET kept == SelectLane(out, lane)
          IN  \A k \in 1..(Len(kept) - 1) :
                 kept[k + 1].time_ms - kept[k].time_ms >= TierGap

\* A finished normal pass over a sorted input that dropped a note and kept
\* two notes of one lane.
C1_Witness ==
    /\ pc = "thin_done" /\ difficulty = "normal" /\ IsSortedByTime(notes)
    /\ Len(out) < Len(notes)
    /\ \E lane \in Lanes : Len(SelectLane(out, lane)) >= 2

\* C2: for a time-sorted input and easyGap >= normalGap, the easy pass keeps
\* at most as many notes as the normal pass, which keeps at most as many as
\* the expert pass (whatever the expert gap).
C2_TierOrdering ==
    (pc = "thin_done" /\ difficulty = "easy" /\ IsSortedByTime(notes))
    => \A gn \in GapChoices, gx \in GapChoices :
          gn <= spacing.easy
          => LET normal == thin_notes_for_difficulty(notes, "normal", SpacingFor("normal", gn))
                 expert == thin_notes_for_difficulty(notes, "expert", SpacingFor("expert", gx))
             IN  Len(out) <= Len(normal) /\ Len(normal) <= Len(expert)

\* An easy pass with the build's gaps where all three counts differ.
C2_Witness ==
    /\ pc = "thin_done" /\ difficulty = "easy" /\ IsSortedByTime(notes)
    /\ spacing.easy = DefaultEasy
    /\ LET normal == thin_notes_for_difficulty(notes, "normal", SpacingFor("normal", BuildNormal))
           expert == thin_notes_for_difficulty(notes, "expert", SpacingFor("expert", DefaultExpert))
       IN  Len(out) < Len(normal) /\ Len(normal) < Len(expert)

\* C3: the notes kept on a lane depend on that lane's notes alone: at every
\* point of a pass they are what the thinner keeps of the lane's notes taken
\* by themselves, so two inputs with the same lane-L notes keep the same
\* lane-L notes, for every tier and gap.
C3_LaneIndependence ==
    pc \in {"thin_loop", "thin_done"}
    => \A lane \in Lanes :
          SelectLane(out, lane)
            = thin_notes_for_difficulty(SelectLane(Prefix(notes, idx - 1), lane),
                                        difficulty, spacing)

\* A finished dropping pass whose input interleaves two lanes, with a note of
\* the other lane between a kept note and a dropped one.
C3_Witness ==
    /\ pc = "thin_done" /\ difficulty \in {"easy", "normal"}
    /\ Len(notes) = 3 /\ Len(out) = 2
    /\ notes[1].lane = notes[3].lane /\ notes[2].lane # notes[1].lane
    /\ out = <<notes[1], notes[2]>>

\* C4: the expert tier returns every input note in input order, for any
\* input and any expert gap.
C4_ExpertKeepsAll ==
    (pc \in {"thin_loop", "thin_done"} /\ difficulty = "expert")
    => /\ out = Prefix(notes, idx - 1)
       /\ pc = "thin_done" => out = notes

\* A finished expert pass over two same-lane notes at the same time.
C4_Witness ==
    /\ pc = "thin_done" /\ difficulty = "expert" /\ Len(notes) >= 2
    /\ \E k \in 1..(Len(notes) - 1) :
          /\ notes[k].lane = notes[k + 1].lane
          /\ notes[k].time_ms = notes[k + 1].time_ms
    /\ out = notes

\* The note the loop is at is about to be dropped.
DropsCurrent ==
    /\ pc = "thin_loop" /\ idx <= Len(notes)
    /\ difficulty \in {"easy", "normal"}
    /\ notes[idx].time_ms - LastTime(last_time_by_lane, notes[idx].lane) < TierGap

\* C9: during a pass the last-accepted time of each lane is the time of the
\* most recent note emitted on it (the sentinel if none); it changes only
\* when a note of that lane is appended to the output; and a dropped note
\* leaves the output and every last-accepted time unchanged.
C9_LastTimeOnlyOnAccept ==
    /\ [](\A lane \in Lanes :
            LastTime(last_time_by_lane, lane) = LastEmitted(out, lane))
    /\ [][/\ \A lane \in Lanes :
                LastTime(last_time_by_lane', lane) # LastTime(last_time_by_lane, lane)
                => /\ out' = Append(out, notes[idx])
                   /\ notes[idx].lane = lane
          /\ DropsCurrent => (out' = out /\ last_time_by_lane' = last_time_by_lane)]_vars

\* Two notes in a row have been dropped on a lane that has an accepted note.
C9_Witness ==
    /\ pc = "thin_loop" /\ idx = 4 /\ Len(out) = 1
    /\ \A k \in 1..3 : notes[k].lane = notes[1].lane
    /\ notes[3].time_ms > notes[2].time_ms
    /\ LastTime(last_time_by_lane, notes[1].lane) = notes[1].time_ms

(***************************************************************************)
(* Properties of the lane mappers                                          *)
(***************************************************************************)
\* C8: for every pitch of the MIDI range both mappers return a lane in
\* 0..3 and are non-decreasing in pitch; Policy B gives lane 0 up to pitch
\* 36 and lane 3 from pitch 72.
C8_LaneMappers ==
    pc = "lanes_done"
    => /\ {lanes.a_lo, lanes.a_hi, lanes.b_lo, lanes.b_hi} \subseteq Lanes
       /\ lanes.a_lo <= lanes.a_hi
       /\ lanes.b_lo <= lanes.b_hi
       /\ pitch_lo <= 36 => lanes.b_lo = 0
       /\ pitch_hi <= 36 => lanes.b_hi = 0
       /\ pitch_lo >= 72 => lanes.b_lo = 3
       /\ pitch_hi >= 72 => lanes.b_hi = 3

\* Both ends of the range mapped: lane 0 at the lowest pitch, lane 3 at the highest.
C8_Witness ==
    /\ pc = "lanes_done" /\ pitch_lo = 0 /\ pitch_hi = MaxPitch
    /\ lanes = [a_lo |-> 0, a_hi |-> 3, b_lo |-> 0, b_hi |-> 3]

(***************************************************************************)
(* Properties of the per-stem pipeline                                     *)
(***************************************************************************)
\* C10: with bpm > 0 the list handed to the three thinning passes is sorted
\* by time ascending: load_midi_notes returns its events sorted by time, and
\* quantize_notes_to_grid keeps the length and the positions, rewrites
\* only the time field and leaves a time-ascending list time-ascending.
C10_ThinnerInputSorted ==
    /\ pc = "stem_grid" => IsSortedByTime(all_notes)
    /\ (pc \in {"stem_thin", "stem_done"} /\ bpm > 0)
       => LET loaded == SortByTime(FlattenEvents(midi_notes))
          IN  /\ IsSortedByTime(quantized)
              /\ Len(quantized) = Len(loaded)
              /\ \A k \in 1..Len(loaded) :
                    [quantized[k] EXCEPT !.time_ms = loaded[k].time_ms] = loaded[k]

\* A finished body whose file is not in time order and where quantization
\* moved a note and put two notes of different starts on the same grid line.
C10_Witness ==
    /\ pc = "stem_done" /\ bpm > 0
    /\ \E k \in 1..(Len(midi_notes) - 1) : midi_notes[k].start > midi_notes[k + 1].start
    /\ \E k \in 1..(Len(quantized) - 1) :
          /\ quantized[k].time_ms = quantized[k + 1].time_ms
          /\ \E m \in 1..Len(midi_notes) : midi_notes[m].start # quantized[k].time_ms
    /\ Len(tiers.easy) < Len(tiers.expert)

(***************************************************************************)
(* Properties of build_chart_for_song                                      *)
(***************************************************************************)
InBuild == pc \in {"build_loop", "build_done", "build_raised"}

ExistingStems == {s \in StemSet : files[s] # Missing}

\* `stems` of the chart written.
WrittenStems == output_file[1].stems

\* C5: for every bpm <= 0 the build ends in a failure and the chart file
\* is never written, whichever stem sources exist.
C5_NonPositiveBpmFails ==
    (InBuild /\ bpm <= 0)
    => /\ output_file = NotWritten
       /\ pc # "build_done"

\* C6: the keys of `stems` in the written chart are exactly the stems whose
\* source exists, each carrying easy, normal and expert; a source that is
\* missing yields no key, and a build fails only with an existing source.
C6_StemKeys ==
    InBuild
    => /\ pc = "build_done"
          => /\ output_file # NotWritten
             /\ DOMAIN WrittenStems = ExistingStems
             /\ \A s \in DOMAIN WrittenStems :
                   DOMAIN WrittenStems[s].difficulties = Difficulties
       /\ pc = "build_raised" => ExistingStems # {}
       /\ pc # "build_done" => output_file = NotWritten

\* A written chart of a build with the drums source alone.
C6_Witness ==
    /\ pc = "build_done"
    /\ files["melody"] = Missing /\ files["vocals"] = Missing
    /\ Len(files["drums"].notes) = 2
    /\ DOMAIN WrittenStems = {"drums"}
    /\ Len(WrittenStems["drums"].difficulties.easy.notes)
         < Len(WrittenStems["drums"].difficulties.expert.notes)

(***************************************************************************)
(* Properties of build_chart_from_midi                                     *)
(***************************************************************************)
Range(s) == {s[k] : k \in 1..Len(s)}

\* C7: for every note and offset (negative ones too, times are not clamped)
\* the note is emitted at timeMs = startMs, as a hold with endTimeMs = endMs
\* exactly when endMs - startMs >= 350 and else as a tap without endTimeMs;
\* endTimeMs is present iff the type is hold, and a hold ends after it starts.
C7_HoldClassification ==
    pc \in {"chart_loop", "chart_done"}
    => /\ pc = "chart_loop"
          => \A k \in 1..Len(chart_notes) :
                LET startMs == RoundedMs(pm_notes[k].start, offset_ms)
                    endMs   == RoundedMs(pm_notes[k].end, offset_ms)
                    cn      == chart_notes[k]
                IN  /\ cn.timeMs = startMs
                    /\ (endMs - startMs >= 350)
                       => (cn.type = "hold" /\ "endTimeMs" \in DOMAIN cn /\ cn.endTimeMs = endMs)
                    /\ (endMs - startMs < 350)
                       => (cn.type = "tap" /\ "endTimeMs" \notin DOMAIN cn)
       /\ \A cn \in Range(chart_notes) :
             /\ cn.type \in {"hold", "tap"}
             /\ ("endTimeMs" \in DOMAIN cn) <=> (cn.type = "hold")
             /\ cn.type = "hold" => cn.endTimeMs > cn.timeMs
       /\ pc = "chart_done"
          => /\ chart[1].notes = chart_notes
             /\ Len(chart_notes) = Len(pm_notes)

\* A returned chart with a negative offset: a tap pushed below zero and a
\* hold that is exactly 350 ms long.
C7_Witness ==
    /\ pc = "chart_done" /\ offset_ms < 0
    /\ \E cn \in Range(chart[1].notes) : cn.type = "tap" /\ cn.timeMs < 0
    /\ \E cn \in Range(chart[1].notes) :
          cn.type = "hold" /\ cn.endTimeMs - cn.timeMs = 350

====
